---- MODULE Spec2Model ----
(***************************************************************************)
(* The typing game of src/Game.js, src/Enemy.js and src/script.js as a     *)
(* state machine.  One action per event the browser can deliver: a click   *)
(* on the start, mode, retry or quit button, a keydown, a tick of the      *)
(* spawn, refill or difficulty interval, and a Collision event raised by   *)
(* the detector of an active enemy.  Every handler runs to completion.     *)
(*                                                                         *)
(* Conventions                                                             *)
(*  - difficultyLevel is counted in half levels (the code adds .5 per      *)
(*    step): the model's 10 is the code's 5.                               *)
(*  - a word is a tuple of one-character strings.                          *)
(*  - the queue holds Enemy objects whose words were drawn independently   *)
(*    at random and are read only when they are dequeued; the model keeps  *)
(*    the number of stored objects and draws the word at the dequeue.      *)
(*  - a timer handle is TRUE while its interval is running.                *)
(*                                                                         *)
(* Spec explores sessions of both modes over a small dictionary, SpecCrowd *)
(* one session over a dictionary wide enough to fill the Map, SpecScaler   *)
(* the whole run of the difficulty scaler.                                 *)
(***************************************************************************)
EXTENDS Integers, Sequences, FiniteSets, TLC

VARIABLES
  modeButton,        \* script.js: the mode named on the mode button
  buttonsDisabled,   \* the start and mode buttons are disabled and hidden
  gameMode,
  difficultyLevel,
  lives,
  activeEnemies,     \* Map: first character -> Enemy
  enemyQueue,        \* Queue: [queue |-> stored objects, size |-> size field]
  enemySpawnDelay,
  loadQueueDelay,
  nextModifier,
  score,
  streak,
  highScore,
  currentTarget,
  spawnInterval,
  enqueueInterval,
  difficultyInterval,
  queueLimit,
  activeEnemyLimit,
  missedWords,
  keydownListeners,  \* number of keydown listeners initGame has added to the document
  collisionListener, \* the Collision listener is attached to the game area
  resultsContainers, \* result screens endGame has appended and no button has removed
  threw,             \* the last event handler ended with an uncaught TypeError
  detectors,         \* running detector intervals, each named by the first
                     \* character of the word whose node it watches
  difficultyTicks    \* calls of _increaseDifficulty since the last initGame

vars == << modeButton, buttonsDisabled, gameMode, difficultyLevel, lives,
           activeEnemies, enemyQueue, enemySpawnDelay, loadQueueDelay,
           nextModifier, score, streak, highScore, currentTarget,
           spawnInterval, enqueueInterval, difficultyInterval, queueLimit,
           activeEnemyLimit, missedWords, keydownListeners, collisionListener,
           resultsContainers, threw, detectors, difficultyTicks >>

(***************************************************************************)
(* Bounds of the exploration.                                              *)
(***************************************************************************)
MaxSessions == 2   \* calls of initGame in one run
MaxScore == 5      \* a keydown that would raise score above it is not explored
MaxDrain == 2      \* spawn ticks explored below a full queue size field
MaxLevel == 1      \* difficulty ticks are explored up to this half level in Spec
CrowdDrain == 11   \* MaxDrain of SpecCrowd
CrowdLevel == 1    \* MaxLevel of SpecCrowd
CrowdScore == 0    \* MaxScore of SpecCrowd
ScalerSessions == 2 \* MaxSessions of SpecScaler
ScalerScore == 2   \* MaxScore of SpecScaler
ScalerDrain == 1   \* MaxDrain of SpecScaler

(***************************************************************************)
(* Values.                                                                 *)
(***************************************************************************)
null == "null"
undefined == -1

\* words.js: the dictionary.  The last word is never drawn (Game.js:284).
words == << <<"a", "b">>, <<"b">>, <<"z", "z">> >>

\* A dictionary with more first characters than activeEnemyLimit can reach.
wordsWide ==
  [i \in 1..12 |->
     << <<"a", "b", "c", "d", "e", "f", "g", "h", "i", "j", "k", "z">>[i], "a" >>]

\* The keys of the keydown events explored: letters, a capital and a key no word uses.
Keys == {"a", "b", "B", "x"}

\* String.toLowerCase on the keys.
toLowerCase(key) == IF key = "B" THEN "b" ELSE key

Max(a, b) == IF a >= b THEN a ELSE b

\* Math.ceil(1 + level) with level counted in half levels.
CeilOnePlus(halfLevels) == 1 + ((halfLevels + 1) \div 2)

(***************************************************************************)
(* Enemy.js                                                                *)
(***************************************************************************)
Enemy(word) ==
  [word |-> word, typed |-> 0, next |-> word[1], defeated |-> FALSE]

\* The null of currentTarget.
NoTarget == [word |-> << >>, typed |-> 0, next |-> null, defeated |-> FALSE]

\* Mutant of updateCompletionPercentage: the last character does not set defeated.
updateCompletionPercentage_NeverDefeated(e) ==
  LET typed == e.typed + 1
      next == IF typed + 1 <= Len(e.word) THEN e.word[typed + 1] ELSE null
  IN [e EXCEPT !.typed = typed, !.next = next]

\* updateCompletionPercentage()
updateCompletionPercentage(e) ==
  LET typed == e.typed + 1
      next == IF typed + 1 <= Len(e.word) THEN e.word[typed + 1] ELSE null
  IN [e EXCEPT !.typed = typed, !.next = next,
               !.defeated = IF next = null THEN TRUE ELSE e.defeated]

(***************************************************************************)
(* Map operations on activeEnemies.                                        *)
(***************************************************************************)
MapHas(m, k) == k \in DOMAIN m
MapSet(m, k, v) == [c \in DOMAIN m \cup {k} |-> IF c = k THEN v ELSE m[c]]
MapDelete(m, k) == [c \in DOMAIN m \ {k} |-> m[c]]
EmptyMap == [c \in {} |-> NoTarget]

(***************************************************************************)
(* Queue                                                                   *)
(***************************************************************************)
\* new Set(data) of a batch of n objects made by `new Enemy(...)`: a Set
\* compares objects by identity, whatever their words, so the object made
\* i-th is the member i.
SetOfNewEnemies(n) == 1..n

\* The words _loadIntoQueue can draw: words[0 .. words.length - 2].
Drawable(dict) == {dict[i] : i \in 1..(Len(dict) - 1)}

\* enqueue(data) of a batch of n new Enemy objects.
enqueue(q, n) ==
  [queue |-> q.queue + Cardinality(SetOfNewEnemies(n)), size |-> q.size + n]

\* dequeue(): shift() of an empty array returns undefined and leaves it empty.
dequeue(q) ==
  [queue |-> IF q.queue > 0 THEN q.queue - 1 ELSE 0, size |-> q.size - 1]

clear(q) == [q EXCEPT !.queue = 0]

(***************************************************************************)
(* Game: the state after new Game() and the load of script.js.             *)
(***************************************************************************)
Init ==
  /\ modeButton \in {"Normal", "Sudden Death"}
  /\ buttonsDisabled = FALSE
  /\ gameMode = ""
  /\ difficultyLevel = 0
  /\ lives = undefined
  /\ activeEnemies = EmptyMap
  /\ enemyQueue = [queue |-> 0, size |-> 0]
  /\ enemySpawnDelay = 2500
  /\ loadQueueDelay = 10000
  /\ nextModifier = "interval"
  /\ score = 0
  /\ streak = 0
  /\ highScore = 0
  /\ currentTarget = NoTarget
  /\ spawnInterval = FALSE
  /\ enqueueInterval = FALSE
  /\ difficultyInterval = FALSE
  /\ queueLimit = 30
  /\ activeEnemyLimit = 10
  /\ missedWords = << >>
  /\ keydownListeners = 0
  /\ collisionListener = FALSE
  /\ resultsContainers = 0
  /\ threw = FALSE
  /\ detectors = {}
  /\ difficultyTicks = 0

\* _loadIntoQueue: the queue after the call.
loadIntoQueue(q, limit) ==
  LET needed == limit - q.size
  IN enqueue(q, IF needed > 0 THEN needed ELSE 0)

\* String.toLowerCase on the names of the modes.
modeToLowerCase(mode) ==
  CASE mode = "Normal" -> "normal"
    [] mode = "Sudden Death" -> "sudden death"
    [] OTHER -> mode

\* Mutant of startingLives: the mode is compared before it is lower-cased.
startingLives_CaseSensitive(mode) == IF mode = "Normal" THEN 4 ELSE 1

\* initGame: this.lives = this.gameMode === "normal" ? 4 : 1
startingLives(mode) == IF mode = "normal" THEN 4 ELSE 1

\* initGame(mode), with _setIntervals and the listeners it adds.
initGame(mode) ==
  /\ score' = 0
  /\ gameMode' = modeToLowerCase(mode)
  /\ lives' = startingLives(modeToLowerCase(mode))
  /\ enemyQueue' = loadIntoQueue(enemyQueue, queueLimit)
  /\ spawnInterval' = TRUE
  /\ enqueueInterval' = TRUE
  /\ difficultyInterval' = TRUE
  /\ keydownListeners' = keydownListeners + 1
  /\ collisionListener' = TRUE
  /\ buttonsDisabled' = TRUE
  /\ threw' = FALSE
  /\ difficultyTicks' = 0
  /\ UNCHANGED << modeButton, difficultyLevel, activeEnemies, enemySpawnDelay,
                  loadQueueDelay, nextModifier, streak, highScore,
                  currentTarget, queueLimit, activeEnemyLimit, missedWords,
                  detectors >>

\* script.js: startButton.onclick.
ClickStart(maxSessions) ==
  /\ ~buttonsDisabled
  /\ keydownListeners < maxSessions
  /\ initGame(modeButton)
  /\ UNCHANGED resultsContainers

\* script.js: modeButton.onclick.
ClickMode ==
  /\ ~buttonsDisabled
  /\ modeButton' = IF modeButton = "Normal" THEN "Sudden Death" ELSE "Normal"
  /\ threw' = FALSE
  /\ UNCHANGED << buttonsDisabled, gameMode, difficultyLevel, lives,
                  activeEnemies, enemyQueue, enemySpawnDelay, loadQueueDelay,
                  nextModifier, score, streak, highScore, currentTarget,
                  spawnInterval, enqueueInterval, difficultyInterval,
                  queueLimit, activeEnemyLimit, missedWords, keydownListeners,
                  collisionListener, resultsContainers, detectors,
                  difficultyTicks >>

\* endGame: retryButton.onclick.
ClickRetry(maxSessions) ==
  /\ resultsContainers > 0
  /\ keydownListeners < maxSessions
  /\ resultsContainers' = resultsContainers - 1
  /\ initGame(gameMode)

\* endGame: quitButton.onclick.
ClickQuit ==
  /\ resultsContainers > 0
  /\ resultsContainers' = resultsContainers - 1
  /\ buttonsDisabled' = ~buttonsDisabled
  /\ threw' = FALSE
  /\ UNCHANGED << modeButton, gameMode, difficultyLevel, lives, activeEnemies,
                  enemyQueue, enemySpawnDelay, loadQueueDelay, nextModifier,
                  score, streak, highScore, currentTarget, spawnInterval,
                  enqueueInterval, difficultyInterval, queueLimit,
                  activeEnemyLimit, missedWords, keydownListeners,
                  collisionListener, detectors, difficultyTicks >>

(***************************************************************************)
(* Keydown.  One listener's run of _handleKeyPress works on the record     *)
(* [currentTarget, activeEnemies, score, streak, threw].  currentTarget    *)
(* and the Map value are one object: a change of the target's enemy is a   *)
(* change of the Map's entry.  The field `advanced` lists, in order, the    *)
(* word of every enemy updateCompletionPercentage was called on, and the   *)
(* field `calls` the enemy before and after each of these calls.           *)
(***************************************************************************)
KeyFields ==
  [currentTarget |-> currentTarget, activeEnemies |-> activeEnemies,
   score |-> score, streak |-> streak, threw |-> FALSE, advanced |-> << >>,
   detectors |-> detectors, calls |-> << >>]

\* Mutant of stopDetector: the interval keeps running.
stopDetector_Leak(ds, lead) == ds

\* clearInterval(enemy.detector) of the enemy stored under `lead`.
stopDetector(ds, lead) == ds \ {lead}

\* _clearEnemyWord
clearEnemyWord(g) ==
  [g EXCEPT !.score = g.score + Len(g.currentTarget.word) + g.streak,
            !.detectors = stopDetector(g.detectors, g.currentTarget.word[1]),
            !.activeEnemies = MapDelete(g.activeEnemies, g.currentTarget.word[1]),
            !.currentTarget = NoTarget,
            !.streak = g.streak + CeilOnePlus(difficultyLevel)]

\* The target's enemy after updateCompletionPercentage, seen through both references.
advanceTarget(g, e) ==
  LET k == e.word[1]
  IN [g EXCEPT !.currentTarget = e,
               !.advanced = Append(g.advanced, e.word),
               !.calls = Append(g.calls, << g.currentTarget, e >>),
               !.activeEnemies =
                  IF MapHas(g.activeEnemies, k) /\ g.activeEnemies[k] = g.currentTarget
                  THEN MapSet(g.activeEnemies, k, e)
                  ELSE g.activeEnemies]

\* _handleKeyPress
handleKeyPress(g, key) ==
  IF g.currentTarget # NoTarget
  THEN IF toLowerCase(key) = g.currentTarget.next
       THEN LET g1 == advanceTarget(g, updateCompletionPercentage(g.currentTarget))
            IN IF g1.currentTarget.next = null THEN clearEnemyWord(g1) ELSE g1
       ELSE g
  ELSE IF MapHas(g.activeEnemies, key)
       THEN LET e == updateCompletionPercentage(g.activeEnemies[key])
            IN [g EXCEPT !.currentTarget = e,
                         !.advanced = Append(g.advanced, e.word),
                         !.calls = Append(g.calls, << g.activeEnemies[key], e >>),
                         !.activeEnemies = MapSet(g.activeEnemies, key, e)]
       \* Game.js:263 reads this.currentTarget.enemy of a null currentTarget
       ELSE [g EXCEPT !.threw = TRUE]

\* The document runs every keydown listener initGame has added, in order.
RECURSIVE dispatchKeydown(_, _, _)
dispatchKeydown(g, key, listeners) ==
  IF listeners = 0 THEN g
  ELSE dispatchKeydown(handleKeyPress(g, key), key, listeners - 1)

\* The fields after one keydown event of `key`.
afterKeydown(key) == dispatchKeydown(KeyFields, key, keydownListeners)

KeyDownOf(key, maxScore) ==
  LET g == afterKeydown(key)
  IN /\ keydownListeners > 0
     /\ g.score <= maxScore
     /\ currentTarget' = g.currentTarget
     /\ activeEnemies' = g.activeEnemies
     /\ score' = g.score
     /\ streak' = g.streak
     /\ threw' = g.threw
     /\ detectors' = g.detectors
     /\ UNCHANGED << modeButton, buttonsDisabled, gameMode, difficultyLevel,
                     lives, enemyQueue, enemySpawnDelay, loadQueueDelay,
                     nextModifier, highScore, spawnInterval, enqueueInterval,
                     difficultyInterval, queueLimit, activeEnemyLimit,
                     missedWords, keydownListeners, collisionListener,
                     resultsContainers, difficultyTicks >>

KeyDown(maxScore) == \E key \in Keys : KeyDownOf(key, maxScore)

(***************************************************************************)
(* Timers.                                                                 *)
(***************************************************************************)
\* Mutant of addEnemyWord: the check against activeEnemyLimit is missing.
addEnemyWord_NoLimit(m, enemy, limit) ==
  IF MapHas(m, enemy.next) THEN m
  ELSE MapSet(m, enemy.next, enemy)

\* Mutant of addEnemyWord: a word whose first character is taken replaces the entry.
addEnemyWord_Overwrite(m, enemy, limit) ==
  IF Cardinality(DOMAIN m) >= limit THEN m
  ELSE MapSet(m, enemy.next, enemy)

\* _addEnemyWord(enemy): the Map after the call.
addEnemyWord(m, enemy, limit) ==
  IF MapHas(m, enemy.next) THEN m
  ELSE IF Cardinality(DOMAIN m) >= limit THEN m
  ELSE MapSet(m, enemy.next, enemy)

\* _addEnemyWord: the detector is created on the way to this.activeEnemies.set,
\* so it runs exactly when the call has changed the Map from m to m2.
startDetector(ds, m, m2, enemy) == IF m2 = m THEN ds ELSE ds \cup {enemy.next}

\* The spawn interval's callback: this._addEnemyWord(this.enemyQueue.dequeue()),
\* when the word the queue hands out is dict[i].
SpawnTickOf(dict, i, maxDrain) ==
  /\ spawnInterval
  /\ enemyQueue.size > queueLimit - maxDrain
  /\ enemyQueue' = dequeue(enemyQueue)
  /\ IF enemyQueue.queue = 0
     \* dequeue() returned undefined: Game.js:323 reads enemy.next of undefined
     THEN /\ threw' = TRUE
          /\ UNCHANGED << activeEnemies, detectors >>
     ELSE /\ threw' = FALSE
          /\ activeEnemies' = addEnemyWord(activeEnemies, Enemy(dict[i]), activeEnemyLimit)
          /\ detectors' = startDetector(detectors, activeEnemies, activeEnemies', Enemy(dict[i]))
  /\ UNCHANGED << modeButton, buttonsDisabled, gameMode, difficultyLevel, lives,
                  enemySpawnDelay, loadQueueDelay, nextModifier, score, streak,
                  highScore, currentTarget, spawnInterval, enqueueInterval,
                  difficultyInterval, queueLimit, activeEnemyLimit, missedWords,
                  keydownListeners, collisionListener, resultsContainers,
                  difficultyTicks >>

SpawnTick(dict, maxDrain) ==
  \E i \in 1..(Len(dict) - 1) : SpawnTickOf(dict, i, maxDrain)

\* The refill interval's callback: this._loadIntoQueue().
EnqueueTick ==
  /\ enqueueInterval
  /\ enemyQueue' = loadIntoQueue(enemyQueue, queueLimit)
  /\ threw' = FALSE
  /\ UNCHANGED << modeButton, buttonsDisabled, gameMode, difficultyLevel, lives,
                  activeEnemies, enemySpawnDelay, loadQueueDelay, nextModifier,
                  score, streak, highScore, currentTarget, spawnInterval,
                  enqueueInterval, difficultyInterval, queueLimit,
                  activeEnemyLimit, missedWords, keydownListeners,
                  collisionListener, resultsContainers, detectors,
                  difficultyTicks >>

\* Mutant of raiseLevel: the interval axis adds a whole level.
raiseLevel_WholeLevel(level, modifier) ==
  IF modifier = "interval" THEN level + 2 ELSE level + 1

\* _increaseDifficulty: this.difficultyLevel += .5 on the axis `modifier`.
raiseLevel(level, modifier) == level + 1

\* Mutant of intervalOpen: the delay of 500 is lowered once more.
intervalOpen_AtFloor(delay) == delay >= 500

\* _increaseDifficulty: this.enemySpawnDelay > 500
intervalOpen(delay) == delay > 500

\* Mutant of wordlimitOpen: the limits stop one step early.
wordlimitOpen_Early(limit) == limit < 55

\* _increaseDifficulty: this.queueLimit < 60
wordlimitOpen(limit) == limit < 60

\* The difficulty interval's callback: this._increaseDifficulty().
DifficultyTick(maxLevel) ==
  /\ difficultyInterval
  /\ difficultyLevel < maxLevel \/ difficultyLevel = 10
  /\ threw' = FALSE
  /\ difficultyTicks' = difficultyTicks + 1
  /\ IF difficultyLevel = 10
     THEN /\ nextModifier' = null
          /\ difficultyInterval' = FALSE
          /\ UNCHANGED << loadQueueDelay, enemySpawnDelay, difficultyLevel,
                          queueLimit, activeEnemyLimit, spawnInterval,
                          enqueueInterval >>
     ELSE LET interval == nextModifier = "interval" /\ intervalOpen(enemySpawnDelay)
              wordlimit == nextModifier = "wordlimit" /\ wordlimitOpen(queueLimit)
          IN /\ loadQueueDelay' = IF interval THEN loadQueueDelay - 1000 ELSE loadQueueDelay
             /\ enemySpawnDelay' = IF interval THEN enemySpawnDelay - 500 ELSE enemySpawnDelay
             /\ queueLimit' = IF wordlimit THEN queueLimit + 5 ELSE queueLimit
             /\ activeEnemyLimit' = IF wordlimit THEN activeEnemyLimit + 1 ELSE activeEnemyLimit
             /\ difficultyLevel' = IF interval \/ wordlimit
                                   THEN raiseLevel(difficultyLevel, nextModifier)
                                   ELSE difficultyLevel
             \* _setIntervals
             /\ spawnInterval' = TRUE
             /\ enqueueInterval' = TRUE
             /\ difficultyInterval' = TRUE
             /\ nextModifier' = IF nextModifier = "interval" THEN "wordlimit" ELSE "interval"
  /\ UNCHANGED << modeButton, buttonsDisabled, gameMode, lives, activeEnemies,
                  enemyQueue, score, streak, highScore, currentTarget,
                  missedWords, keydownListeners, collisionListener,
                  resultsContainers, detectors >>

(***************************************************************************)
(* Collision: the detector of the enemy stored under `lead` dispatches the *)
(* event and _collisionHandler runs, with endGame and _resetDefaults when  *)
(* no life is left.                                                        *)
(***************************************************************************)
\* Mutant of endGameHighScore: the last score overwrites the high score.
endGameHighScore_LastScore(s, h) == s

\* Mutant of endGameHighScore: endGame leaves the high score as it was.
endGameHighScore_NotUpdated(s, h) == h

\* endGame: this.highScore = Math.max(this.score, this.highScore)
endGameHighScore(s, h) == Max(s, h)

\* Mutant of collisionTarget: every collision clears the target.
collisionTarget_AlwaysCleared(target, enemy) == NoTarget

\* Mutant of collisionTarget: a collision never clears the target.
collisionTarget_NeverCleared(target, enemy) == target

\* _collisionHandler: if (this.currentTarget === enemy) this.currentTarget = null
collisionTarget(target, enemy) == IF target = enemy THEN NoTarget ELSE target

CollisionOf(lead) ==
    LET enemy == activeEnemies[lead]
        word == enemy.word
        gameOver == lives - 1 <= 0
    IN /\ collisionListener
       /\ lead \in detectors
       /\ lives' = lives - 1
       /\ threw' = FALSE
       /\ IF gameOver
          THEN \* endGame, _resetDefaults
               /\ highScore' = endGameHighScore(score, highScore)
               /\ resultsContainers' = resultsContainers + 1
               /\ enemyQueue' = clear(enemyQueue)
               /\ collisionListener' = FALSE
               /\ activeEnemies' = EmptyMap
               /\ missedWords' = << >>
               /\ streak' = 0
               /\ queueLimit' = 30
               /\ difficultyLevel' = 0
               /\ activeEnemyLimit' = 10
               /\ loadQueueDelay' = 10000
               /\ enemySpawnDelay' = 2500
               /\ currentTarget' = NoTarget
               /\ nextModifier' = "interval"
               /\ spawnInterval' = FALSE
               /\ enqueueInterval' = FALSE
               /\ difficultyInterval' = FALSE
               /\ detectors' = {}
               /\ difficultyTicks' = 0
          ELSE /\ streak' = 0
               /\ detectors' = stopDetector(detectors, word[1])
               /\ currentTarget' = collisionTarget(currentTarget, enemy)
               /\ activeEnemies' = MapDelete(activeEnemies, word[1])
               /\ missedWords' = Append(missedWords, word)
               /\ UNCHANGED << highScore, resultsContainers, enemyQueue,
                               collisionListener, queueLimit, difficultyLevel,
                               activeEnemyLimit, loadQueueDelay, enemySpawnDelay,
                               nextModifier, spawnInterval, enqueueInterval,
                               difficultyInterval, difficultyTicks >>
       /\ UNCHANGED << modeButton, buttonsDisabled, gameMode, score,
                       keydownListeners >>

Collision == \E lead \in DOMAIN activeEnemies : CollisionOf(lead)

Next ==
  \/ ClickStart(MaxSessions)
  \/ ClickMode
  \/ ClickRetry(MaxSessions)
  \/ ClickQuit
  \/ KeyDown(MaxScore)
  \/ SpawnTick(words, MaxDrain)
  \/ EnqueueTick
  \/ DifficultyTick(MaxLevel)
  \/ Collision

Spec == Init /\ [][Next]_vars

(***************************************************************************)
(* SpecCrowd: one sudden-death session over the wide dictionary, in which  *)
(* the Map fills up to activeEnemyLimit.                                   *)
(***************************************************************************)
InitSuddenDeath == Init /\ modeButton = "Sudden Death"

NextCrowd ==
  \/ ClickStart(1)
  \/ KeyDown(CrowdScore)
  \/ SpawnTick(wordsWide, CrowdDrain)
  \/ EnqueueTick
  \/ DifficultyTick(CrowdLevel)
  \/ Collision

SpecCrowd == InitSuddenDeath /\ [][NextCrowd]_vars

(***************************************************************************)
(* SpecScaler: sudden-death sessions with the difficulty ticks explored up *)
(* to the maximal level and past it.                                       *)
(***************************************************************************)
NextScaler ==
  \/ ClickStart(ScalerSessions)
  \/ ClickRetry(ScalerSessions)
  \/ ClickQuit
  \/ KeyDown(ScalerScore)
  \/ SpawnTick(words, ScalerDrain)
  \/ EnqueueTick
  \/ DifficultyTick(10)
  \/ Collision

SpecScaler == InitSuddenDeath /\ [][NextScaler]_vars

\* SpecScaler with a difficulty interval that keeps firing while it is set.
SpecScalerFair == SpecScaler /\ WF_vars(DifficultyTick(10))

(***************************************************************************)
(* Properties.                                                             *)
(***************************************************************************)

\* C1: one keydown event advances at most one enemy, by exactly one
\* character: a key that selects an untargeted active enemy leaves it at
\* typedCount 1, a key that matches the target's nextChar advances that
\* target once, and no other enemy is advanced during the same keydown; in
\* every session, a retried one included.
C1_OneAdvancePerKeydown ==
  [][\A key \in Keys :
       KeyDownOf(key, MaxScore) =>
         LET g == afterKeydown(key)
         IN /\ Len(g.advanced) <= 1
            /\ (currentTarget = NoTarget /\ MapHas(activeEnemies, key)) =>
                 /\ g.advanced = << activeEnemies[key].word >>
                 /\ MapHas(activeEnemies', key)
                 /\ activeEnemies'[key].typed = 1
            /\ (currentTarget # NoTarget /\ toLowerCase(key) = currentTarget.next) =>
                 g.advanced = << currentTarget.word >>]_vars

\* C2: the Map of active enemies never holds more than activeEnemyLimit
\* entries, and every entry is stored under the first character of its word
\* (so no two active enemies share a first character).
C2_RegistryBounded ==
  /\ Cardinality(DOMAIN activeEnemies) <= activeEnemyLimit
  /\ \A k \in DOMAIN activeEnemies : activeEnemies[k].word[1] = k

\* C2 witness: the Map is full and more spawn ticks have run than it has entries.
C2_RegistryFull ==
  /\ Cardinality(DOMAIN activeEnemies) = activeEnemyLimit
  /\ enemyQueue.queue < queueLimit - activeEnemyLimit

\* C3: when a collision takes the last life, endGame runs once (one result
\* screen is added), highScore becomes max(score, highScore) and the three
\* intervals are stopped; from then until the next initGame no result screen
\* is added, highScore keeps its value, no interval runs and no enemy is active.
C3_GameOverOnce ==
  [][/\ (lives = 1 /\ lives' = 0) =>
          /\ resultsContainers' = resultsContainers + 1
          /\ highScore' = Max(score, highScore)
     /\ lives = 0 =>
          /\ resultsContainers' <= resultsContainers
          /\ highScore' = highScore
     /\ lives' = 0 =>
          /\ resultsContainers' <= 1
          /\ ~spawnInterval' /\ ~enqueueInterval' /\ ~difficultyInterval'
          /\ activeEnemies' = EmptyMap
          /\ ~collisionListener']_vars

\* C3 witness: a game is over with a positive score that became the high score.
C3_GameOverReached ==
  /\ lives = 0
  /\ resultsContainers = 1
  /\ score > 0
  /\ highScore = score

\* C4: a keydown that matches the last remaining character of the selected
\* target raises score by length(word) plus the streak held before, raises
\* streak by ceil(1 + difficultyLevel), leaves no target selected and removes
\* the entry stored under the word's first character.
C4_ClearOnLastCharacter ==
  [][\A key \in Keys :
       ( /\ KeyDownOf(key, MaxScore)
         /\ currentTarget # NoTarget
         /\ toLowerCase(key) = currentTarget.next
         /\ currentTarget.typed + 1 = Len(currentTarget.word) ) =>
           /\ score' = score + Len(currentTarget.word) + streak
           /\ streak' = streak + CeilOnePlus(difficultyLevel)
           /\ currentTarget' = NoTarget
           /\ ~MapHas(activeEnemies', currentTarget.word[1])]_vars

\* C5 as stated: every handled collision takes one life, zeroes the streak,
\* appends the word to missedWords, removes the entry, keeps the score, and
\* clears currentTarget only if it was the colliding enemy.
C5_CollisionAsStated ==
  [][\A lead \in DOMAIN activeEnemies :
       CollisionOf(lead) =>
         /\ lives' = lives - 1
         /\ streak' = 0
         /\ missedWords' = Append(missedWords, activeEnemies[lead].word)
         /\ ~MapHas(activeEnemies', lead)
         /\ score' = score
         /\ currentTarget' = IF currentTarget = activeEnemies[lead]
                             THEN NoTarget ELSE currentTarget]_vars

\* C5 amended: every handled collision takes one life, zeroes the streak,
\* removes the entry and keeps the score.  While a life is left the word is
\* appended to missedWords and currentTarget is cleared only if it was the
\* colliding enemy; when the last life is lost the reset of endGame empties
\* missedWords and the Map and leaves no target selected.
C5_CollisionAmended ==
  [][\A lead \in DOMAIN activeEnemies :
       CollisionOf(lead) =>
         /\ lives' = lives - 1
         /\ streak' = 0
         /\ ~MapHas(activeEnemies', lead)
         /\ score' = score
         /\ lives' > 0 =>
              /\ missedWords' = Append(missedWords, activeEnemies[lead].word)
              /\ DOMAIN activeEnemies' = DOMAIN activeEnemies \ {lead}
              /\ currentTarget' = IF currentTarget = activeEnemies[lead]
                                  THEN NoTarget ELSE currentTarget
         /\ lives' <= 0 =>
              /\ missedWords' = << >>
              /\ activeEnemies' = EmptyMap
              /\ currentTarget' = NoTarget]_vars

\* C5 witness: an untargeted enemy has collided while another enemy stays the target.
C5_CollisionBesideTarget ==
  /\ lives = 3
  /\ Len(missedWords) = 1
  /\ currentTarget # NoTarget
  /\ currentTarget.word # missedWords[1]
  /\ streak = 0
  /\ score > 0

\* C6: within a session difficultyLevel never decreases (it falls only in
\* the step that ends the game) and never exceeds 5 (10 half levels), and
\* while it stays at 5 no step changes enemySpawnDelay, loadQueueDelay,
\* queueLimit or activeEnemyLimit.
C6_LevelMonotoneAndCapped ==
  [][/\ difficultyLevel' <= 10
     /\ difficultyLevel' < difficultyLevel => (lives = 1 /\ lives' = 0)
     /\ (difficultyLevel = 10 /\ difficultyLevel' = 10) =>
          UNCHANGED << enemySpawnDelay, loadQueueDelay, queueLimit,
                       activeEnemyLimit >>]_vars

\* C6 witness: the level is 5 and the tick after it has run.
C6_TerminalTickTaken ==
  /\ difficultyLevel = 10
  /\ nextModifier = null
  /\ ~difficultyInterval
  /\ spawnInterval

\* C7: right after every initGame (first start, retry, start after quit)
\* lives is 4 in normal mode and 1 in sudden death, score, streak and
\* difficultyLevel are 0, queueLimit is 30, activeEnemyLimit 10,
\* enemySpawnDelay 2500, nextModifier "interval", the Map is empty and no
\* target is selected; a retry keeps the mode, a start takes the mode button's.
C7_FreshSession ==
  [][keydownListeners' = keydownListeners + 1 =>
       /\ gameMode' \in {"normal", "sudden death"}
       /\ lives' = IF gameMode' = "normal" THEN 4 ELSE 1
       /\ score' = 0
       /\ streak' = 0
       /\ difficultyLevel' = 0
       /\ queueLimit' = 30
       /\ activeEnemyLimit' = 10
       /\ enemySpawnDelay' = 2500
       /\ nextModifier' = "interval"
       /\ activeEnemies' = EmptyMap
       /\ currentTarget' = NoTarget
       /\ IF resultsContainers' < resultsContainers
          THEN gameMode' = gameMode
          ELSE gameMode' = modeToLowerCase(modeButton)]_vars

\* C7 witness: a second normal-mode session has started after one that scored.
C7_SecondSessionStarted ==
  /\ keydownListeners = 2
  /\ gameMode = "normal"
  /\ lives = 4
  /\ highScore > 0
  /\ score = 0
  /\ collisionListener
  /\ enemyQueue.size = queueLimit

\* C8: the queue's size field equals the number of elements it stores.
C8_SizeIsStoredCount == enemyQueue.size = enemyQueue.queue

\* C9: a spawn tick on a queue that stores nothing changes nothing, the
\* size field included, and raises no error.
C9_EmptySpawnTickIsNoOp ==
  [][(SpawnTick(words, MaxDrain) /\ enemyQueue.queue = 0) =>
       /\ enemyQueue' = enemyQueue
       /\ ~threw'
       /\ UNCHANGED << activeEnemies, currentTarget, score, streak, lives,
                       missedWords, difficultyLevel, queueLimit,
                       activeEnemyLimit >>]_vars

\* C10: a keydown that matches nothing (a target is selected and the key is
\* not its nextChar, or no target is selected and the key is no key of the
\* Map) changes neither score, streak, lives, the Map, currentTarget nor
\* missedWords, and raises no error.
C10_UnmatchedKeyIsIgnored ==
  [][\A key \in Keys :
       ( /\ KeyDownOf(key, MaxScore)
         /\ \/ currentTarget # NoTarget /\ toLowerCase(key) # currentTarget.next
            \/ currentTarget = NoTarget /\ ~MapHas(activeEnemies, key) ) =>
           /\ UNCHANGED << score, streak, lives, activeEnemies, currentTarget,
                           missedWords >>
           /\ ~threw']_vars

\* C11: every enemy keeps typedCount within 0..length(word) and is defeated
\* exactly when typedCount = length(word), in the Map, as the target, and
\* right after each call of updateCompletionPercentage; and no keydown calls
\* updateCompletionPercentage on an enemy that is already defeated.
C11_AdvanceWithinWord ==
  [](/\ \A e \in {activeEnemies[k] : k \in DOMAIN activeEnemies} \cup {currentTarget} :
          /\ e.typed \in 0..Len(e.word)
          /\ e # NoTarget => (e.defeated <=> (e.typed = Len(e.word)))
     /\ \A key \in Keys :
          \A call \in {afterKeydown(key).calls[n] : n \in DOMAIN afterKeydown(key).calls} :
            /\ ~call[1].defeated
            /\ call[2].typed \in 0..Len(call[2].word)
            /\ call[2].defeated <=> (call[2].typed = Len(call[2].word)))

\* C11: a defeated enemy is still the target while a keydown listener is
\* installed, so that a key can be tried on it.
C11_DefeatedEnemyTargeted ==
  /\ currentTarget.defeated
  /\ MapHas(activeEnemies, currentTarget.word[1])
  /\ keydownListeners > 0
  /\ collisionListener

\* C12: a bulk insert stores no two enemies with the same word.  A batch
\* drawn from the dictionary has at most as many different words as can be
\* drawn, so one insert adds at most that many elements to the queue.
C12_BatchStoresDistinctWords ==
  [][enemyQueue'.queue > enemyQueue.queue =>
       enemyQueue'.queue - enemyQueue.queue <= Cardinality(Drawable(words))]_vars

\* C13: a spawn tick that takes a word from the queue while the first
\* character of the word is a key of the Map, or while the Map holds
\* activeEnemyLimit entries, takes the word off the queue without putting it
\* back and leaves the Map, currentTarget, score, streak and lives unchanged.
C13_RejectedSpawnDropsWord ==
  [][\A i \in 1..(Len(wordsWide) - 1) :
       ( /\ SpawnTickOf(wordsWide, i, CrowdDrain)
         /\ enemyQueue.queue > 0
         /\ \/ MapHas(activeEnemies, wordsWide[i][1])
            \/ Cardinality(DOMAIN activeEnemies) >= activeEnemyLimit )
       => /\ enemyQueue'.queue = enemyQueue.queue - 1
          /\ UNCHANGED << activeEnemies, currentTarget, score, streak, lives >>]_vars

\* C13: the queue has handed out more words than the Map has taken, the Map
\* is full and one of its enemies is typed on.
C13_SpawnRejected ==
  /\ Cardinality(DOMAIN activeEnemies) = activeEnemyLimit
  /\ currentTarget # NoTarget
  /\ enemyQueue.queue > 0
  /\ queueLimit - enemyQueue.queue > activeEnemyLimit

\* C14: highScore never decreases; it changes only in the collision that
\* ends a session, where it becomes the larger of the session's final score
\* and the high score of the sessions ended before (0 when there is none),
\* so it is the largest final score of all sessions ended so far.
C14_HighScoreIsRunningMaximum ==
  [][/\ highScore' >= highScore
     /\ IF collisionListener /\ ~collisionListener'
        THEN /\ highScore' >= score
             /\ highScore' \in {score, highScore}
        ELSE highScore' = highScore]_vars

\* C14: a second session has ended with a final score below the high score.
C14_LowerScoreAfterHighScore ==
  /\ keydownListeners = 2
  /\ lives = 0
  /\ ~collisionListener
  /\ score < highScore

\* C15: between handlers no enemy of the Map is defeated and the target is
\* not a defeated enemy, a word of one character included, whose selecting
\* key is also its last.
C15_NoDefeatedEnemyKept ==
  /\ \A k \in DOMAIN activeEnemies : ~activeEnemies[k].defeated
  /\ ~currentTarget.defeated

\* C16: a set currentTarget is the entry of the Map under the first
\* character of its word, and every other entry of the Map has typedCount 0.
C16_TargetIsTheOnlyTypedEntry ==
  /\ currentTarget # NoTarget =>
       /\ MapHas(activeEnemies, currentTarget.word[1])
       /\ activeEnemies[currentTarget.word[1]] = currentTarget
  /\ \A k \in DOMAIN activeEnemies :
       (currentTarget = NoTarget \/ k # currentTarget.word[1]) =>
         activeEnemies[k].typed = 0

\* C16: an enemy is typed on while another one is active beside it.
C16_TargetAmongOthers ==
  /\ currentTarget # NoTarget
  /\ currentTarget.typed > 0
  /\ Cardinality(DOMAIN activeEnemies) >= 2

\* C17: the running detector intervals are exactly those of the entries of
\* the Map: an entry removed by completion, by collision or at game over has
\* its detector stopped, and no detector runs after endGame.
C17_DetectorsOfTheRegistry ==
  /\ detectors = DOMAIN activeEnemies
  /\ ~collisionListener => detectors = {}

\* C17: a word has been completed and removed while the detector of another
\* entry keeps running.
C17_OtherDetectorRunning ==
  /\ score > 0
  /\ detectors # {}
  /\ collisionListener

\* C18: every difficulty tick below the maximal level hands nextModifier to
\* the other axis, also when the axis in turn cannot move: a tick with
\* nextModifier = interval and enemySpawnDelay = 500 leaves enemySpawnDelay,
\* loadQueueDelay and difficultyLevel unchanged and sets nextModifier to
\* wordlimit.
C18_TickFlipsModifier ==
  [][(DifficultyTick(10) /\ difficultyLevel < 10) =>
       /\ nextModifier = "interval" => nextModifier' = "wordlimit"
       /\ nextModifier = "wordlimit" => nextModifier' = "interval"
       /\ (nextModifier = "interval" /\ enemySpawnDelay = 500) =>
            UNCHANGED << enemySpawnDelay, loadQueueDelay, difficultyLevel >>]_vars

\* C18: the interval axis had its turn at enemySpawnDelay = 500 below the
\* maximal level, and the turn has passed to wordlimit.
C18_BlockedIntervalTurnTaken ==
  /\ enemySpawnDelay = 500
  /\ difficultyLevel = 8
  /\ difficultyTicks = 9
  /\ nextModifier = "wordlimit"

\* C19: queueLimit and activeEnemyLimit reach their maxima on the same
\* difficulty tick, and the maxima are queueLimit = 60 and
\* activeEnemyLimit = 20.
C19_LimitsMaxOutTogether ==
  /\ queueLimit <= 60
  /\ activeEnemyLimit <= 20
  /\ queueLimit = 60 <=> activeEnemyLimit = 20

\* C20: in a session that game over does not end and whose difficulty
\* interval keeps firing, difficultyLevel reaches 5 at the 12th tick, with
\* enemySpawnDelay = 500 and queueLimit = 60; the 13th tick sets
\* nextModifier to null and clears the difficulty interval, and no
\* difficulty tick fires in the session after it.
C20_ScalerStopsAtMaximum ==
  /\ [](difficultyLevel = 10 <=> difficultyTicks \in {12, 13})
  /\ [](difficultyLevel = 10 => (enemySpawnDelay = 500 /\ queueLimit = 60))
  /\ [](difficultyTicks = 13 <=> nextModifier = null)
  /\ [](nextModifier = null => ~difficultyInterval)
  /\ [][difficultyTicks = 13 => difficultyTicks' \in {13, 0}]_vars
  /\ collisionListener ~> (~collisionListener \/ difficultyTicks = 13)

\* C20: the session goes on after the difficulty interval has stopped.
C20_PlayedOnAtMaximum ==
  /\ difficultyTicks = 13
  /\ collisionListener
  /\ ~difficultyInterval
  /\ score > 0

\* C21: right after every initGame, the one of a retry after a game over
\* included, the queue stores exactly queueLimit = 30 enemies.
C21_FullQueueAfterStart ==
  [][keydownListeners' = keydownListeners + 1 =>
       /\ queueLimit' = 30
       /\ enemyQueue'.queue = queueLimit']_vars

====
